---- MODULE Spec2Model ----
(***************************************************************************)
(* Model of pokeget-rs: the sprite layout planner and compositor of        *)
(* src/sprites.rs (CanvasDimensions::calculate_for_wrapped,                *)
(* SpriteComposer::compose_with_layout, combine_sprites) and the name      *)
(* list of src/list.rs (List::read, List::format_name).                    *)
(*                                                                         *)
(* Sprite indices are the 0-based indices of the Rust code; the sprite     *)
(* with index k is pokemons[k + 1] of the TLA+ sequence.                   *)
(***************************************************************************)
EXTENDS Integers, Sequences, FiniteSets, TLC

\* ---------------------------------------------------------------- bounds
MaxSprites == 3
MaxRecords == 3

\* ------------------------------------------------------ program constants
SPRITE_SPACING == 1
MIN_TERMINAL_WIDTH == 40

\* ------------------------------------------------------------ input sets
SpriteWidths == {0, 10, 50}
SpriteHeights == {0, 30, 50}
Sprites == [width : SpriteWidths, height : SpriteHeights]
\* terminal_size(): None, or Some((Width(w), _))
TermQueries ==
    {[some |-> FALSE, w |-> 0]} \cup {[some |-> TRUE, w |-> x] : x \in {21, 25, 60}}

VARIABLES
    pokemons,            \* the &[Pokemon] argument: sequence of sprite sizes
    pc,                  \* position inside combine_sprites
    result,              \* "none" | "EmptyInput" | "CopyFailed" | "Ok"
    planner_invoked,     \* calculate_for_wrapped has been entered
    term_query,          \* what terminal_size() returned
    terminal_width,
    i,                   \* loop index of the planner
    rows,
    current_row,
    current_row_width,
    max_row_width,
    current_row_height,
    dimensions,          \* CanvasDimensions
    layout,              \* SpriteLayout.rows
    canvas,              \* the composer's canvas (allocated, width, height)
    y_offset,
    x_offset,
    row_height,
    r,                   \* index of the row being composed
    c,                   \* position inside the row being composed
    placed,              \* the copies made so far: sprite index, row, x, y
    records,             \* the (display name, filename) records of names.csv
    bad_at,              \* 1-based position of the first unparsable record, 0 if none
    lpc,                 \* position inside the list operations
    li,                  \* loop index of List::read
    ids,                 \* BiHashMap<usize, String> as a set of <<id, filename>>
    names,               \* Vec<String> of display names
    filename,            \* argument of the last format_name call
    formatted            \* value returned by the last format_name call

spriteVars ==
    <<pokemons, pc, result, planner_invoked, term_query, terminal_width, i, rows,
      current_row, current_row_width, max_row_width, current_row_height,
      dimensions, layout, canvas, y_offset, x_offset, row_height, r, c, placed>>

listVars == <<records, bad_at, lpc, li, ids, names, filename, formatted>>

vars == <<spriteVars, listVars>>

\* ---------------------------------------------------------------- helpers
Max(a, b) == IF a >= b THEN a ELSE b

\* pokemon.sprite.width() / .height() of the sprite with 0-based index idx
Width(ps, idx) == ps[idx + 1].width
Height(ps, idx) == ps[idx + 1].height

NoCanvas == [allocated |-> FALSE, width |-> 0, height |-> 0]
NoDimensions == [width |-> 0, height |-> 0]

\* ------------------------------------------------ calculate_for_wrapped
\* terminal_size().map(|(Width(w), _)| w as u32).unwrap_or(MIN_TERMINAL_WIDTH)
TerminalWidth(q) == IF q.some THEN q.w ELSE MIN_TERMINAL_WIDTH

NeededWidthNoSpacing(row, crw, sw) == IF row = <<>> THEN sw ELSE crw + sw

NeededWidth(row, crw, sw) ==
    IF row = <<>> THEN sw ELSE crw + SPRITE_SPACING + sw

StartsNewRowEarly(needed, tw, row) == needed >= tw /\ row # <<>>

StartsNewRowLate(needed, tw, row) == needed > tw + SPRITE_SPACING /\ row # <<>>

\* needed_width > terminal_width && !current_row.is_empty()
StartsNewRow(needed, tw, row) == needed > tw /\ row # <<>>

NewRowDropsIndex(idx) == <<>>

\* current_row = vec![i]
NewRow(idx) == <<idx>>

RECURSIVE RowHeight(_, _)
\* row_height = max over the row of sprite.height(), starting from 0
RowHeight(ps, row) ==
    IF row = <<>> THEN 0
    ELSE Max(RowHeight(ps, SubSeq(row, 1, Len(row) - 1)), Height(ps, row[Len(row)]))

RECURSIVE SumRowHeights(_, _)
SumRowHeights(ps, rs) ==
    IF rs = <<>> THEN 0
    ELSE SumRowHeights(ps, SubSeq(rs, 1, Len(rs) - 1)) + RowHeight(ps, rs[Len(rs)])

TotalHeightNoSpacing(ps, rs) == IF rs = <<>> THEN 1 ELSE SumRowHeights(ps, rs)

\* total_height: 1 when rows is empty, else the row heights plus the spacing
TotalHeight(ps, rs) ==
    IF rs = <<>> THEN 1
    ELSE SumRowHeights(ps, rs) + (Len(rs) - 1) * SPRITE_SPACING

\* ---------------------------------------------------- compose_with_layout
SpriteYTop(yo, rh, sh) == yo

\* sprite_y = y_offset + row_height - pokemon.sprite.height()
SpriteY(yo, rh, sh) == yo + rh - sh

NextXOffsetNoSpacing(xo, sw) == xo + sw - SPRITE_SPACING

\* x_offset += pokemon.sprite.width() + SPRITE_SPACING
NextXOffset(xo, sw) == xo + sw + SPRITE_SPACING

\* GenericImage::copy_from rejects a copy that does not fit the canvas
CopyFits(cv, sw, sh, x, y) == ~(cv.width < sw + x \/ cv.height < sh + y)

\* --------------------------------------------------------- combine_sprites
IsEmptyInputOffByOne(ps) == Len(ps) <= 1

\* pokemons.is_empty()
IsEmptyInput(ps) == Len(ps) = 0

\* ------------------------------------------------------------------ Init
SpriteIdle ==
    /\ pc = "start"
    /\ result = "none"
    /\ planner_invoked = FALSE
    /\ term_query = [some |-> FALSE, w |-> 0]
    /\ terminal_width = 0
    /\ i = 0
    /\ rows = <<>>
    /\ current_row = <<>>
    /\ current_row_width = 0
    /\ max_row_width = 0
    /\ current_row_height = 0
    /\ dimensions = NoDimensions
    /\ layout = <<>>
    /\ canvas = NoCanvas
    /\ y_offset = 0
    /\ x_offset = 0
    /\ row_height = 0
    /\ r = 0
    /\ c = 0
    /\ placed = {}

ListIdle ==
    /\ records = <<>>
    /\ bad_at = 0
    /\ lpc = "idle"
    /\ li = 0
    /\ ids = {}
    /\ names = <<>>
    /\ filename = <<>>
    /\ formatted = <<>>

Init ==
    /\ pokemons \in UNION {[1..n -> Sprites] : n \in 0..MaxSprites}
    /\ SpriteIdle
    /\ ListIdle

\* --------------------------------------------------------------- actions
\* combine_sprites: the empty check, then the call of the planner
CombineSprites ==
    /\ pc = "start"
    /\ IF IsEmptyInput(pokemons)
       THEN /\ result' = "EmptyInput"
            /\ pc' = "done"
       ELSE /\ result' = result
            /\ pc' = "plan"
    /\ UNCHANGED <<pokemons, planner_invoked, term_query, terminal_width, i, rows,
                   current_row, current_row_width, max_row_width, current_row_height,
                   dimensions, layout, canvas, y_offset, x_offset, row_height, r, c,
                   placed>>
    /\ UNCHANGED listVars

\* calculate_for_wrapped: the terminal width and the initial locals
PlanBegin ==
    /\ pc = "plan"
    /\ \E q \in TermQueries :
         /\ term_query' = q
         /\ terminal_width' = TerminalWidth(q)
    /\ planner_invoked' = TRUE
    /\ rows' = <<>>
    /\ current_row' = <<>>
    /\ current_row_width' = 0
    /\ max_row_width' = 0
    /\ current_row_height' = 0
    /\ i' = 0
    /\ pc' = "loop"
    /\ UNCHANGED <<pokemons, result, dimensions, layout, canvas, y_offset, x_offset,
                   row_height, r, c, placed>>
    /\ UNCHANGED listVars

\* calculate_for_wrapped: one iteration of the loop over the sprites
PlanSprite ==
    /\ pc = "loop"
    /\ i < Len(pokemons)
    /\ LET sprite_width == Width(pokemons, i)
           sprite_height == Height(pokemons, i)
           needed_width == NeededWidth(current_row, current_row_width, sprite_width)
       IN IF StartsNewRow(needed_width, terminal_width, current_row)
          THEN /\ rows' = Append(rows, current_row)
               /\ max_row_width' = Max(max_row_width, current_row_width)
               /\ current_row' = NewRow(i)
               /\ current_row_width' = sprite_width
               /\ current_row_height' = sprite_height
          ELSE /\ rows' = rows
               /\ max_row_width' = max_row_width
               /\ current_row' = Append(current_row, i)
               /\ current_row_width' = needed_width
               /\ current_row_height' = Max(current_row_height, sprite_height)
    /\ i' = i + 1
    /\ UNCHANGED <<pokemons, pc, result, planner_invoked, term_query, terminal_width,
                   dimensions, layout, canvas, y_offset, x_offset, row_height, r, c,
                   placed>>
    /\ UNCHANGED listVars

\* calculate_for_wrapped: the last row, the total height and the return value
PlanFinish ==
    /\ pc = "loop"
    /\ i = Len(pokemons)
    /\ LET final_rows == IF current_row # <<>> THEN Append(rows, current_row) ELSE rows
           final_max == IF current_row # <<>>
                        THEN Max(max_row_width, current_row_width)
                        ELSE max_row_width
       IN /\ rows' = final_rows
          /\ max_row_width' = final_max
          /\ dimensions' = [width |-> Max(final_max, 1),
                            height |-> TotalHeight(pokemons, final_rows)]
          /\ layout' = final_rows
    /\ pc' = "new_composer"
    /\ UNCHANGED <<pokemons, result, planner_invoked, term_query, terminal_width, i,
                   current_row, current_row_width, current_row_height, canvas,
                   y_offset, x_offset, row_height, r, c, placed>>
    /\ UNCHANGED listVars

\* SpriteComposer::new, and the first line of compose_with_layout
NewComposer ==
    /\ pc = "new_composer"
    /\ canvas' = [allocated |-> TRUE, width |-> dimensions.width,
                  height |-> dimensions.height]
    /\ y_offset' = 0
    /\ r' = 0
    /\ pc' = "rows"
    /\ UNCHANGED <<pokemons, result, planner_invoked, term_query, terminal_width, i,
                   rows, current_row, current_row_width, max_row_width,
                   current_row_height, dimensions, layout, x_offset, row_height, c,
                   placed>>
    /\ UNCHANGED listVars

\* compose_with_layout: entering a row, computing its height
ComposeRowBegin ==
    /\ pc = "rows"
    /\ r < Len(layout)
    /\ x_offset' = 0
    /\ row_height' = RowHeight(pokemons, layout[r + 1])
    /\ c' = 0
    /\ pc' = "sprites"
    /\ UNCHANGED <<pokemons, result, planner_invoked, term_query, terminal_width, i,
                   rows, current_row, current_row_width, max_row_width,
                   current_row_height, dimensions, layout, canvas, y_offset, r,
                   placed>>
    /\ UNCHANGED listVars

\* compose_with_layout: copying one sprite of the row
ComposeSprite ==
    /\ pc = "sprites"
    /\ c < Len(layout[r + 1])
    /\ LET pokemon_idx == layout[r + 1][c + 1]
           sw == Width(pokemons, pokemon_idx)
           sh == Height(pokemons, pokemon_idx)
           sprite_y == SpriteY(y_offset, row_height, sh)
       IN IF CopyFits(canvas, sw, sh, x_offset, sprite_y)
          THEN /\ placed' = placed \cup
                      {[idx |-> pokemon_idx, row |-> r, x |-> x_offset, y |-> sprite_y]}
               /\ x_offset' = NextXOffset(x_offset, sw)
               /\ c' = c + 1
               /\ UNCHANGED <<pc, result, canvas>>
          ELSE /\ result' = "CopyFailed"
               /\ canvas' = NoCanvas
               /\ pc' = "done"
               /\ UNCHANGED <<placed, x_offset, c>>
    /\ UNCHANGED <<pokemons, planner_invoked, term_query, terminal_width, i, rows,
                   current_row, current_row_width, max_row_width, current_row_height,
                   dimensions, layout, y_offset, row_height, r>>
    /\ UNCHANGED listVars

\* compose_with_layout: leaving a row
ComposeRowEnd ==
    /\ pc = "sprites"
    /\ c = Len(layout[r + 1])
    /\ y_offset' = y_offset + row_height + SPRITE_SPACING
    /\ r' = r + 1
    /\ pc' = "rows"
    /\ UNCHANGED <<pokemons, result, planner_invoked, term_query, terminal_width, i,
                   rows, current_row, current_row_width, max_row_width,
                   current_row_height, dimensions, layout, canvas, x_offset,
                   row_height, c, placed>>
    /\ UNCHANGED listVars

\* compose_with_layout: Ok(self.canvas)
ComposeDone ==
    /\ pc = "rows"
    /\ r = Len(layout)
    /\ result' = "Ok"
    /\ pc' = "done"
    /\ UNCHANGED <<pokemons, planner_invoked, term_query, terminal_width, i, rows,
                   current_row, current_row_width, max_row_width, current_row_height,
                   dimensions, layout, canvas, y_offset, x_offset, row_height, r, c,
                   placed>>
    /\ UNCHANGED listVars

Next ==
    \/ CombineSprites
    \/ PlanBegin
    \/ PlanSprite
    \/ PlanFinish
    \/ NewComposer
    \/ ComposeRowBegin
    \/ ComposeSprite
    \/ ComposeRowEnd
    \/ ComposeDone

Spec == Init /\ [][Next]_vars

\* ===================================================================
\* src/list.rs: List::read and List::format_name
\* ===================================================================
\* Strings are sequences of characters, so that the formatting is computed.
Filenames == {<<"a">>, <<"a", "-", "b">>, <<"a", "'", "b">>}
DisplayNames == {<<"A">>, <<"B">>, <<"A", ".", " ", "B">>}
Records == [name : DisplayNames, file : Filenames]

\* BiHashMap::insert: a pair replaces every pair sharing its left or right value
BiInsert(m, l, rt) == {p \in m : p[1] # l /\ p[2] # rt} \cup {<<l, rt>>}

\* BiHashMap::get_by_right: the set of ids paired with the filename (at most one)
GetByRight(m, rt) == {p[1] : p \in {q \in m : q[2] = rt}}

\* Vec::get(index): 0-based, None past the end
VecGet(v, id) == IF id >= 0 /\ id < Len(v) THEN {v[id + 1]} ELSE {}

RECURSIVE Replace(_, _, _)
\* str::replace of one character by a (possibly empty) string
Replace(s, from, to) ==
    IF s = <<>> THEN <<>>
    ELSE (IF Head(s) = from THEN to ELSE <<Head(s)>>) \o Replace(Tail(s), from, to)

Upper(ch) == CASE ch = "a" -> "A" [] ch = "b" -> "B" [] OTHER -> ch
Lower(ch) == CASE ch = "A" -> "a" [] ch = "B" -> "b" [] OTHER -> ch

RECURSIVE TitleWords(_, _, _)
\* Inflector::to_title_case: words separated by one space, each capitalised
TitleWords(s, out, new_word) ==
    IF s = <<>> THEN out
    ELSE IF Head(s) = " " THEN TitleWords(Tail(s), out, TRUE)
    ELSE TitleWords(Tail(s),
                    out \o (IF new_word /\ out # <<>> THEN <<" ">> ELSE <<>>)
                        \o <<IF new_word THEN Upper(Head(s)) ELSE Lower(Head(s))>>,
                    FALSE)

ToTitleCase(s) == TitleWords(s, <<>>, TRUE)

\* raw_fmt = |x| x.replace('-', " ").replace('\'', "").to_title_case()
RawFmt(x) == ToTitleCase(Replace(Replace(x, "-", <<" ">>), "'", <<>>))

\* List::format_name
FormatNameOf(m, v, f) ==
    LET id == GetByRight(m, f)
    IN IF id = {} THEN RawFmt(f)
       ELSE LET name == VecGet(v, CHOOSE x \in id : TRUE)
            IN IF name = {} THEN RawFmt(f)
               ELSE CHOOSE n \in name : TRUE

ListInit ==
    /\ pokemons = <<>>
    /\ SpriteIdle
    /\ records \in UNION {[1..n -> Records] : n \in 0..MaxRecords}
    /\ bad_at \in 0..Len(records)
    /\ lpc = "read"
    /\ li = 0
    /\ ids = {}
    /\ names = <<>>
    /\ filename = <<>>
    /\ formatted = <<>>

\* List::read: one iteration of the loop over the CSV records
ReadRecord ==
    /\ lpc = "read"
    /\ li < Len(records)
    /\ IF li + 1 = bad_at
       THEN /\ lpc' = "CsvParseError"
            /\ UNCHANGED <<ids, names, li>>
       ELSE /\ ids' = BiInsert(ids, li + 1, records[li + 1].file)
            /\ names' = Append(names, records[li + 1].name)
            /\ li' = li + 1
            /\ lpc' = lpc
    /\ UNCHANGED <<records, bad_at, filename, formatted>>
    /\ UNCHANGED spriteVars

\* List::read: Ok(Self { ids, names })
ReadDone ==
    /\ lpc = "read"
    /\ li = Len(records)
    /\ lpc' = "ready"
    /\ UNCHANGED <<records, bad_at, li, ids, names, filename, formatted>>
    /\ UNCHANGED spriteVars

\* List::format_name, called with any filename
FormatName ==
    /\ lpc \in {"ready", "formatted"}
    /\ \E f \in Filenames :
         /\ filename' = f
         /\ formatted' = FormatNameOf(ids, names, f)
    /\ lpc' = "formatted"
    /\ UNCHANGED <<records, bad_at, li, ids, names>>
    /\ UNCHANGED spriteVars

ListNext ==
    \/ ReadRecord
    \/ ReadDone
    \/ FormatName

ListSpec == ListInit /\ [][ListNext]_vars

\* ===================================================================
\* Properties
\* ===================================================================
\* the planner has returned
Planned == planner_invoked /\ pc \in {"new_composer", "rows", "sprites", "done"}

RECURSIVE Concat(_)
Concat(rs) == IF rs = <<>> THEN <<>> ELSE Head(rs) \o Concat(Tail(rs))

\* the indices 0, 1, ..., n-1 in order
Indices(n) == [k \in 1..n |-> k - 1]

RECURSIVE SumWidths(_, _)
SumWidths(ps, row) ==
    IF row = <<>> THEN 0 ELSE Width(ps, Head(row)) + SumWidths(ps, Tail(row))

\* accumulated width of a row: the sprite widths plus one unit per gap
RowWidthOf(ps, row) ==
    IF row = <<>> THEN 0 ELSE SumWidths(ps, row) + (Len(row) - 1)

\* tallest sprite of a row
RowHeightOf(ps, row) ==
    IF row = <<>> THEN 0
    ELSE CHOOSE h \in {Height(ps, row[k]) : k \in 1..Len(row)} :
           \A k \in 1..Len(row) : Height(ps, row[k]) <= h

RECURSIVE RowTopOf(_, _, _)
\* vertical offset of the row with 0-based position k
RowTopOf(ps, rs, k) ==
    IF k = 0 THEN 0
    ELSE RowTopOf(ps, rs, k - 1) + RowHeightOf(ps, rs[k]) + 1

RECURSIVE SumHeightsOf(_, _)
SumHeightsOf(ps, rs) ==
    IF rs = <<>> THEN 0 ELSE RowHeightOf(ps, Head(rs)) + SumHeightsOf(ps, Tail(rs))

MaxRowWidthOf(ps, rs) ==
    CHOOSE w \in {RowWidthOf(ps, rs[k]) : k \in 1..Len(rs)} :
      \A k \in 1..Len(rs) : RowWidthOf(ps, rs[k]) <= w

\* C1: the layout is a partition of the indices 0..n-1 in input order with
\* no empty row, and during the planner's loop the closed rows followed by
\* the current row are exactly the processed prefix 0..i-1.
C1_LayoutPartition ==
    /\ (pc = "loop") =>
          /\ Concat(rows) \o current_row = Indices(i)
          /\ \A k \in 1..Len(rows) : rows[k] # <<>>
    /\ Planned =>
          /\ Concat(layout) = Indices(Len(pokemons))
          /\ \A k \in 1..Len(layout) : layout[k] # <<>>

C1_Witness ==
    /\ pc = "done"
    /\ result = "Ok"
    /\ Len(pokemons) = 3
    /\ Len(layout) = 2
    /\ Len(layout[1]) = 2

\* C2: every row of the returned layout is no wider than the terminal
\* width the planner used, unless it is a single sprite that alone is wider;
\* a sprite wider than the terminal width is alone in its row.
C2_RowWidthBound ==
    Planned =>
      \A k \in 1..Len(layout) :
        /\ \/ RowWidthOf(pokemons, layout[k]) <= terminal_width
           \/ /\ Len(layout[k]) = 1
              /\ Width(pokemons, layout[k][1]) > terminal_width
        /\ \A j \in 1..Len(layout[k]) :
             Width(pokemons, layout[k][j]) > terminal_width => Len(layout[k]) = 1

C2_Witness ==
    /\ Planned
    /\ Len(layout) = 2
    /\ Len(layout[1]) = 2
    /\ RowWidthOf(pokemons, layout[1]) = terminal_width
    /\ Len(layout[2]) = 1
    /\ Width(pokemons, layout[2][1]) > terminal_width

\* C3: the terminal width the planner wraps against is never below the
\* minimum of 40, and is 40 when the terminal-size query fails.
C3_TerminalWidthFloor ==
    planner_invoked =>
      /\ terminal_width >= MIN_TERMINAL_WIDTH
      /\ ~term_query.some => terminal_width = MIN_TERMINAL_WIDTH

\* C4: for a non-empty sprite sequence both canvas dimensions are >= 1:
\* height exactly 1 for one row of height 0, width exactly 1 when every row
\* has width 0.
C4_DimensionsAtLeastOne ==
    (Planned /\ pokemons # <<>>) =>
      /\ dimensions.width >= 1
      /\ dimensions.height >= 1
      /\ (Len(layout) = 1 /\ RowHeightOf(pokemons, layout[1]) = 0) => dimensions.height = 1
      /\ (\A k \in 1..Len(layout) : RowWidthOf(pokemons, layout[k]) = 0) => dimensions.width = 1

\* C5: when every sprite is at least 1x1, the canvas width is the largest
\* accumulated row width and the canvas height is the sum of the rows'
\* tallest sprites plus one unit per gap between rows; widths 10,10,10 at
\* terminal width 25 give rows [0,1],[2] and width 21.
C5_DimensionsFormula ==
    (Planned /\ \A k \in 1..Len(pokemons) : pokemons[k].width >= 1 /\ pokemons[k].height >= 1) =>
      /\ dimensions.width = MaxRowWidthOf(pokemons, layout)
      /\ dimensions.height = SumHeightsOf(pokemons, layout) + (Len(layout) - 1)
      /\ (/\ Len(pokemons) = 3
          /\ \A k \in 1..3 : pokemons[k].width = 10
          /\ terminal_width = 25) =>
            /\ layout = <<<<0, 1>>, <<2>>>>
            /\ dimensions.width = 21

C5_Witness ==
    /\ Planned
    /\ Len(pokemons) = 3
    /\ \A k \in 1..3 : pokemons[k].width = 10 /\ pokemons[k].height >= 1
    /\ terminal_width = 25
    /\ layout = <<<<0, 1>>, <<2>>>>
    /\ dimensions = [width |-> 21,
                     height |-> Max(pokemons[1].height, pokemons[2].height)
                                + pokemons[3].height + 1]

\* C6: with an empty sprite sequence combine_sprites returns EmptyInput at
\* once, without invoking the planner or allocating a canvas; with a
\* non-empty sequence it never returns EmptyInput.
C6_EmptyInput ==
    /\ (pokemons = <<>>) =>
          /\ ~planner_invoked
          /\ ~canvas.allocated
          /\ result \in {"none", "EmptyInput"}
          /\ pc \in {"start", "done"}
          /\ (pc = "done") => result = "EmptyInput"
    /\ (pokemons # <<>>) => result # "EmptyInput"

C6_Witness ==
    /\ pokemons = <<>>
    /\ pc = "done"
    /\ result = "EmptyInput"
    /\ ~canvas.allocated

\* C7: every copied sprite is bottom-aligned in its row: its y plus its
\* height is the row's top plus the row's height, the row tops being 0 and
\* then previous top + previous height + 1; heights 30 and 50 in one row
\* put the height-30 sprite 20 units below the row top.
C7_BottomAligned ==
    \A p \in placed :
      LET top == RowTopOf(pokemons, layout, p.row)
          rh == RowHeightOf(pokemons, layout[p.row + 1])
      IN /\ p.y + Height(pokemons, p.idx) = top + rh
         /\ (Height(pokemons, p.idx) = 30 /\ rh = 50) => p.y = top + 20

C7_Witness ==
    \E p \in placed :
      /\ p.row = 1
      /\ Height(pokemons, p.idx) = 30
      /\ RowHeightOf(pokemons, layout[2]) = 50
      /\ p.y = RowTopOf(pokemons, layout, 1) + 20
      /\ RowTopOf(pokemons, layout, 1) > 0

\* C9: composing with the planner's own layout and dimensions, every
\* sprite's footprint lies inside the canvas, the copy never fails and
\* combine_sprites returns the canvas with every sprite copied.
C9_FootprintInsideCanvas ==
    /\ result # "CopyFailed"
    /\ \A p \in placed :
         /\ p.x >= 0
         /\ p.y >= 0
         /\ p.x + Width(pokemons, p.idx) <= dimensions.width
         /\ p.y + Height(pokemons, p.idx) <= dimensions.height
    /\ (pc = "done" /\ pokemons # <<>>) =>
         /\ result = "Ok"
         /\ canvas = [allocated |-> TRUE, width |-> dimensions.width,
                      height |-> dimensions.height]
         /\ {p.idx : p \in placed} = 0..(Len(pokemons) - 1)

C9_Witness ==
    /\ pc = "done"
    /\ result = "Ok"
    /\ Len(layout) = 3
    /\ Cardinality(placed) = 3
    /\ \E p \in placed : p.y + Height(pokemons, p.idx) = dimensions.height /\ p.y > 0

\* C10: the planner never wraps early: for consecutive rows k, k+1 the
\* accumulated width of row k plus 1 plus the width of the first sprite of
\* row k+1 exceeds the terminal width, during the loop and in the result.
C10_NeverWrapsEarly ==
    LET Greedy(rs) ==
          \A k \in 1..(Len(rs) - 1) :
            /\ rs[k] # <<>>
            /\ rs[k + 1] # <<>>
            /\ RowWidthOf(pokemons, rs[k]) + 1 + Width(pokemons, rs[k + 1][1])
                 > terminal_width
    IN /\ (pc = "loop") =>
            Greedy(IF current_row = <<>> THEN rows ELSE Append(rows, current_row))
       /\ Planned => Greedy(layout)

C10_Witness ==
    /\ Planned
    /\ Len(layout) = 2
    /\ Len(layout[1]) = 2
    /\ RowWidthOf(pokemons, layout[1]) = terminal_width
    /\ Width(pokemons, layout[2][1]) = 0

\* C11: the footprints of any two distinct copied sprites are disjoint:
\* within a row a sprite's x is the sum of the preceding widths of the row
\* plus the number of preceding sprites, so it starts exactly 1 unit right
\* of the previous sprite's right edge; every sprite of a later row lies
\* below the bottom edge of every earlier row, and consecutive rows are
\* exactly 1 unit apart.
C11_FootprintsDisjoint ==
    LET W(p) == Width(pokemons, p.idx)
        H(p) == Height(pokemons, p.idx)
        Pos(p) == CHOOSE j \in 1..Len(layout[p.row + 1]) : layout[p.row + 1][j] = p.idx
        Before(p) == SubSeq(layout[p.row + 1], 1, Pos(p) - 1)
        Pixels(p) == (p.x .. (p.x + W(p) - 1)) \X (p.y .. (p.y + H(p) - 1))
    IN /\ \A p \in placed :
            /\ p.x = SumWidths(pokemons, Before(p)) + Len(Before(p))
            /\ \A q \in placed :
                 (q.row = p.row /\ q.idx + 1 = p.idx) => p.x = q.x + W(q) + 1
       /\ \A p, q \in placed :
            /\ (p.idx # q.idx) => Pixels(p) \cap Pixels(q) = {}
            /\ (q.row < p.row) => p.y >= q.y + H(q) + 1
            /\ (/\ q.row + 1 = p.row
                /\ H(p) = RowHeightOf(pokemons, layout[p.row + 1])) =>
                  p.y = q.y + H(q) + 1
       /\ Cardinality({p.idx : p \in placed}) = Cardinality(placed)

C11_Witness ==
    /\ pc = "done"
    /\ result = "Ok"
    /\ Len(layout) = 2
    /\ Len(layout[1]) = 2
    /\ \A k \in 1..Len(pokemons) : pokemons[k].width = 10 /\ pokemons[k].height >= 30
    /\ pokemons[1].height # pokemons[2].height
    /\ \E p, q \in placed : p.row = 0 /\ q.row = 0 /\ q.x = p.x + 11
    /\ \E p, q \in placed :
         p.row = 0 /\ q.row = 1 /\ q.y = p.y + Height(pokemons, p.idx) + 1

\* -------------------------------------------------------------- list.rs
\* C8: with distinct filenames, format_name of the filename of record k
\* returns the display name of record k, and only a filename that is in no
\* record is formatted by the title-casing fallback.
C8_FormatNameLooksUp ==
    (/\ lpc = "formatted"
     /\ \A a, b \in 1..Len(records) : records[a].file = records[b].file => a = b) =>
       /\ \A k \in 1..Len(records) :
            records[k].file = filename => formatted = records[k].name
       /\ (\A k \in 1..Len(records) : records[k].file # filename) =>
            formatted = RawFmt(filename)

====
